---- MODULE Spec2Model ----
(***************************************************************************)
(* Real-time messaging, presence and matching of GrinderClone:             *)
(* server/routes.ts (REST handlers, WebSocket lifecycle), server/storage.ts *)
(* (DatabaseStorage) and the shared schema (tables, insert schemas).       *)
(*                                                                         *)
(* Every handler is async: it runs to its first await, the store applies   *)
(* the statement it issued at some later point, and the handler continues. *)
(* A presence UPDATE is therefore issued by one step and applied by        *)
(* another; POST /api/messages inserts in one step and fans out in the     *)
(* next; POST /api/likes inserts in one step and queries in the next.      *)
(***************************************************************************)
EXTENDS Integers, Sequences, FiniteSets, Bags, TLC

\* ---- bounds of the model ----
MaxConns == 2
MaxTime == 1
MaxPending == 2
MaxMsgs == 2
MaxLikes == 3
MaxBlocks == 1
MaxFrames == 2

\* ---- universes ----
Users == {"A", "B", "C"}
Ghost == "ghost"
NoUser == "undefined"
Absent == "absent"
Conns == 1..MaxConns
Contents == {"hi", "", " ", Absent}

VARIABLES
    readyState,
    userId,
    stale,
    isOnline,
    lastSeen,
    now,
    pending,
    messages,
    msgSeq,
    inflight,
    frames,
    lost,
    resp,
    likes,
    likeSeq,
    inflightLikes,
    likeLog,
    blocks,
    call,
    isVisible,
    age,
    inbox

connVars == <<readyState, userId, stale>>
profileVars == <<isOnline, lastSeen>>
msgVars == <<messages, msgSeq, inflight, frames, lost>>
likeVars == <<likes, likeSeq, inflightLikes, likeLog>>
discoverVars == <<isVisible, age>>
vars == <<readyState, userId, stale, isOnline, lastSeen, now, pending,
          messages, msgSeq, inflight, frames, lost, resp, likes, likeSeq,
          inflightLikes, likeLog, blocks, call, isVisible, age, inbox>>

NoResp == [op |-> "none", status |-> 0, body |-> <<>>]

\* the last query or storage call made on behalf of a user, with its arguments
NoCall == [op |-> "none", userId |-> NoUser, otherUserId |-> NoUser, messageId |-> 0,
           outcome |-> "none"]

Init ==
    /\ readyState = [c \in Conns |-> "NONE"]
    /\ userId = [c \in Conns |-> NoUser]
    /\ stale = {}
    /\ isOnline = [u \in Users |-> FALSE]
    /\ lastSeen = [u \in Users |-> 0]
    /\ now = 0
    /\ pending = EmptyBag
    /\ messages = <<>>
    /\ msgSeq = 0
    /\ inflight = {}
    /\ frames = [c \in Conns |-> <<>>]
    /\ lost = {}
    /\ resp = NoResp
    /\ likes = <<>>
    /\ likeSeq = 0
    /\ inflightLikes = {}
    /\ likeLog = {}
    /\ blocks = <<>>
    /\ call = NoCall
    /\ isVisible = [u \in Users |-> TRUE]
    /\ age = [u \in Users |-> 30]
    /\ inbox = [c \in Conns |-> <<>>]

\* ---- the clock read by new Date() and defaultNow() ----
Tick ==
    /\ now < MaxTime
    /\ now' = now + 1
    /\ UNCHANGED <<connVars, profileVars, pending, msgVars, resp, likeVars, blocks, call, discoverVars, inbox>>

\* ---- storage.updateOnlineStatus: the UPDATE it issues, and its effect ----
\* `online` is the JSON value handed in: "true", "false", or "absent" when the
\* field is undefined, in which case the UPDATE leaves is_online alone
UpdateOnlineStatus(uid, online, op) ==
    [user |-> uid, online |-> online, at |-> now, op |-> op]

\* UPDATE profiles SET is_online, last_seen WHERE user_id = w.user, as one statement
Applied(w) ==
    /\ isOnline' = IF w.user \in Users /\ w.online # Absent
                     THEN [isOnline EXCEPT ![w.user] = (w.online = "true")]
                     ELSE isOnline
    /\ lastSeen' = IF w.user \in Users
                     THEN [lastSeen EXCEPT ![w.user] = w.at]
                     ELSE lastSeen

\* the store applies one of the outstanding UPDATEs, in no particular order
ApplyWrite(w) ==
    /\ BagIn(w, pending)
    /\ Applied(w)
    /\ pending' = pending (-) SetToBag({w})
    /\ UNCHANGED <<connVars, now, msgVars, resp, likeVars, blocks, call, discoverVars, inbox>>

\* ---- WebSocket lifecycle ----
Open(c) ==
    /\ readyState[c] = "NONE"
    /\ readyState' = [readyState EXCEPT ![c] = "OPEN"]
    /\ UNCHANGED <<userId, stale, profileVars, now, pending, msgVars, resp, likeVars, blocks, call, discoverVars, inbox>>

AuthWrite(c, uid) == UpdateOnlineStatus(uid, "true", "auth")

Auth(c, uid) ==
    /\ readyState[c] = "OPEN"
    /\ c \notin stale
    /\ BagCardinality(pending) < MaxPending
    /\ userId' = [userId EXCEPT ![c] = uid]
    /\ pending' = pending (+) SetToBag({AuthWrite(c, uid)})
    /\ UNCHANGED <<readyState, stale, profileVars, now, msgVars, resp, likeVars, blocks, call, discoverVars, inbox>>

\* the auth handler in the schedule where the store applies its UPDATE before
\* any other event; the message pipeline reads neither profiles nor the
\* outstanding UPDATEs, so its specifications use this schedule
AuthAndPersist(c, uid) ==
    /\ readyState[c] = "OPEN"
    /\ c \notin stale
    /\ userId' = [userId EXCEPT ![c] = uid]
    /\ Applied(AuthWrite(c, uid))
    /\ UNCHANGED <<readyState, stale, now, pending, msgVars, resp, likeVars, blocks, call, discoverVars, inbox>>

\* ---- ws.on('message') ----
\* a frame as the handler sees it: text JSON.parse rejects, or an object with
\* its type and userId fields
InboundFrames(users) ==
    [json : {"malformed"}, type : {Absent}, userId : {Absent}]
        \cup [json : {"ok"}, type : {"auth", "ping"}, userId : users]

\* the number of frames received so far on connections 1..n
RECURSIVE Delivered(_)
Delivered(n) == IF n = 0 THEN 0 ELSE Len(inbox[n]) + Delivered(n - 1)

\* the socket receives a frame; its message event has not run yet
Deliver(c, f) ==
    /\ readyState[c] = "OPEN"
    /\ c \notin stale
    /\ Delivered(MaxConns) < MaxFrames
    /\ inbox' = [inbox EXCEPT ![c] = Append(@, [frame |-> f, handled |-> FALSE])]
    /\ UNCHANGED <<connVars, profileVars, now, pending, msgVars, resp, likeVars, blocks, call, discoverVars>>

IsAuthFrame_AnyType(f) == f.json = "ok"

\* JSON.parse succeeded and data.type === 'auth'
IsAuthFrame(f) == f.json = "ok" /\ f.type = "auth"

Unhandled(c) == {i \in 1..Len(inbox[c]) : ~inbox[c][i].handled}

\* the message event of the oldest frame not handled yet: an auth frame binds
\* the socket and issues the UPDATE; a parse error is caught and logged; any
\* other type falls through
OnMessage(c) ==
    /\ readyState[c] = "OPEN"
    /\ Unhandled(c) # {}
    /\ LET i == CHOOSE i \in Unhandled(c) : \A j \in Unhandled(c) : i <= j
           f == inbox[c][i].frame
       IN /\ inbox' = [inbox EXCEPT ![c][i].handled = TRUE]
          /\ IF IsAuthFrame(f)
               THEN /\ BagCardinality(pending) < MaxPending
                    /\ userId' = [userId EXCEPT ![c] = f.userId]
                    /\ pending' = pending (+) SetToBag({AuthWrite(c, f.userId)})
               ELSE UNCHANGED <<userId, pending>>
    /\ UNCHANGED <<readyState, stale, profileVars, now, msgVars, resp, likeVars, blocks, call, discoverVars>>

\* the peer is gone but the close has not been detected yet
GoStale(c) ==
    /\ readyState[c] = "OPEN"
    /\ c \notin stale
    /\ stale' = stale \cup {c}
    /\ UNCHANGED <<readyState, userId, profileVars, now, pending, msgVars, resp, likeVars, blocks, call, discoverVars, inbox>>

CloseWrite_StillOnline(c) == UpdateOnlineStatus(userId[c], "true", "close")

CloseWrite(c) == UpdateOnlineStatus(userId[c], "false", "close")

Close_AlwaysWrites(c) ==
    /\ readyState[c] = "OPEN"
    /\ readyState' = [readyState EXCEPT ![c] = "CLOSED"]
    /\ stale' = stale \ {c}
    /\ BagCardinality(pending) < MaxPending
    /\ pending' = pending (+) SetToBag({CloseWrite(c)})
    /\ UNCHANGED <<userId, profileVars, now, msgVars, resp, likeVars, blocks, call, discoverVars, inbox>>

\* ws.on('close'): the socket is gone; a bound socket issues the offline UPDATE
Close(c) ==
    /\ readyState[c] = "OPEN"
    /\ readyState' = [readyState EXCEPT ![c] = "CLOSED"]
    /\ stale' = stale \ {c}
    /\ IF userId[c] # NoUser
         THEN /\ BagCardinality(pending) < MaxPending
              /\ pending' = pending (+) SetToBag({CloseWrite(c)})
         ELSE pending' = pending
    /\ UNCHANGED <<userId, profileVars, now, msgVars, resp, likeVars, blocks, call, discoverVars, inbox>>

\* the close handler in the schedule where the store applies its UPDATE at once
CloseAndPersist(c) ==
    /\ readyState[c] = "OPEN"
    /\ readyState' = [readyState EXCEPT ![c] = "CLOSED"]
    /\ stale' = stale \ {c}
    /\ IF userId[c] # NoUser
         THEN Applied(CloseWrite(c))
         ELSE UNCHANGED profileVars
    /\ UNCHANGED <<userId, now, pending, msgVars, resp, likeVars, blocks, call, discoverVars, inbox>>

\* ---- POST /api/online-status ----
PostOnlineStatus(uid, online) ==
    /\ BagCardinality(pending) < MaxPending
    /\ pending' = pending (+) SetToBag({UpdateOnlineStatus(uid, online, "rest")})
    /\ resp' = [op |-> "online-status", status |-> 200, body |-> <<[success |-> TRUE]>>]
    /\ UNCHANGED <<connVars, profileVars, now, msgVars, likeVars, blocks, call, discoverVars, inbox>>

\* ---- process crash and restart ----
\* the process dies with its sockets and with the handlers it was running, and
\* no close handler runs; registerRoutes then builds a new server and touches
\* no profile row. An UPDATE the old process had issued may or may not have
\* reached the store.
Restart ==
    /\ \E c \in Conns : readyState[c] = "OPEN"
    /\ readyState' = [c \in Conns |-> "NONE"]
    /\ userId' = [c \in Conns |-> NoUser]
    /\ stale' = {}
    /\ inflight' = {}
    /\ inflightLikes' = {}
    /\ frames' = [c \in Conns |-> <<>>]
    /\ lost' = {}
    /\ inbox' = [c \in Conns |-> <<>>]
    /\ \E survivors \in SubBag(pending) : pending' = survivors
    /\ UNCHANGED <<profileVars, now, messages, msgSeq, resp, likes, likeSeq, likeLog, blocks, call, discoverVars>>

\* the live connections of a user: open and bound to that user
LiveConns(u) == {c \in Conns : readyState[c] = "OPEN" /\ userId[c] = u}

PresenceUsers == {"A", "B"}

NextPresence ==
    \/ Tick
    \/ \E w \in BagToSet(pending) : ApplyWrite(w)
    \/ \E c \in Conns : Open(c)
    \/ \E c \in Conns, u \in PresenceUsers : Auth(c, u)
    \/ \E c \in Conns : Close(c)
    \/ \E u \in PresenceUsers, o \in {"true", "false", Absent} : PostOnlineStatus(u, o)

SpecPresence == Init /\ [][NextPresence]_vars

\* the connection lifecycle alone: no handler of it reads what
\* POST /api/online-status writes
NextConn ==
    \/ Tick
    \/ \E w \in BagToSet(pending) : ApplyWrite(w)
    \/ \E c \in Conns : Open(c)
    \/ \E c \in Conns, u \in PresenceUsers : Auth(c, u)
    \/ \E c \in Conns : Close(c)

SpecConn == Init /\ [][NextConn]_vars

\* ---- POST /api/messages ----
\* a request body: receiverId, content (Absent when not a string), isRead
\* ("true", "false", or Absent when the field is not sent)
MessageBodies(receivers) ==
    [receiverId : receivers, content : Contents, isRead : {"true", "false", Absent}]

WithCaller_BodyWins(body, field, uid) ==
    [f \in DOMAIN body \cup {field} |-> IF f \in DOMAIN body THEN body[f] ELSE uid]

\* {...req.body, <field>: userId}: the body's fields, with the acting identity
\* set to the caller whether or not the body carries one
WithCaller(body, field, uid) ==
    [f \in DOMAIN body \cup {field} |-> IF f = field THEN uid ELSE body[f]]

\* insertMessageSchema.parse({...req.body, senderId: userId}): content must be
\* a string (any string), isRead is optional, the caller's id is the sender
InsertMessageSchemaParse(body, uid) ==
    [ok |-> body.content # Absent,
     data |-> [senderId |-> WithCaller(body, "senderId", uid).senderId,
               receiverId |-> body.receiverId,
               content |-> body.content, isRead |-> body.isRead]]

\* the row the INSERT ... RETURNING of storage.sendMessage produces
SendMessageRow(data) ==
    [id |-> msgSeq + 1, senderId |-> data.senderId, receiverId |-> data.receiverId,
     content |-> data.content,
     isRead |-> IF data.isRead = Absent THEN FALSE ELSE data.isRead = "true",
     createdAt |-> now]

ErrorResp(op, text) == [op |-> op, status |-> 500, body |-> <<[message |-> text]>>]

PostMessage_PushesUnstored(uid, body) ==
    LET p == InsertMessageSchemaParse(body, uid) IN
    /\ msgSeq < MaxMsgs
    /\ IF ~p.ok
         THEN /\ resp' = ErrorResp("messages", "Failed to send message")
              /\ UNCHANGED msgVars
         ELSE IF p.data.receiverId \notin Users
         THEN \* foreign key on receiver_id: the statement fails, the serial is spent
              /\ msgSeq' = msgSeq + 1
              /\ resp' = ErrorResp("messages", "Failed to send message")
              /\ inflight' = inflight \cup
                    {[userId |-> uid, receiverId |-> p.data.receiverId,
                      message |-> SendMessageRow(p.data)]}
              /\ UNCHANGED <<messages, frames, lost>>
         ELSE /\ msgSeq' = msgSeq + 1
              /\ messages' = Append(messages, SendMessageRow(p.data))
              /\ inflight' = inflight \cup
                    {[userId |-> uid, receiverId |-> p.data.receiverId,
                      message |-> SendMessageRow(p.data)]}
              /\ UNCHANGED <<frames, lost, resp>>
    /\ UNCHANGED <<connVars, profileVars, now, pending, likeVars, blocks, call, discoverVars, inbox>>

\* parse, then the awaited insert; the handler resumes in Fanout
PostMessage(uid, body) ==
    LET p == InsertMessageSchemaParse(body, uid) IN
    /\ msgSeq < MaxMsgs
    /\ IF ~p.ok
         THEN /\ resp' = ErrorResp("messages", "Failed to send message")
              /\ UNCHANGED msgVars
         ELSE IF p.data.receiverId \notin Users
         THEN \* foreign key on receiver_id: the statement fails, the serial is spent
              /\ msgSeq' = msgSeq + 1
              /\ resp' = ErrorResp("messages", "Failed to send message")
              /\ UNCHANGED <<messages, inflight, frames, lost>>
         ELSE /\ msgSeq' = msgSeq + 1
              /\ messages' = Append(messages, SendMessageRow(p.data))
              /\ inflight' = inflight \cup
                    {[userId |-> uid, receiverId |-> p.data.receiverId,
                      message |-> SendMessageRow(p.data)]}
              /\ UNCHANGED <<frames, lost, resp>>
    /\ UNCHANGED <<connVars, profileVars, now, pending, likeVars, blocks, call, discoverVars, inbox>>

MessageWithSender(r) == [r.message EXCEPT !.senderId = r.userId]

FanoutTargets_ReceiverOnly(r) ==
    {c \in Conns : readyState[c] = "OPEN" /\ userId[c] = r.receiverId}

FanoutTargets_IgnoresReadyState(r) ==
    {c \in Conns : userId[c] = r.receiverId \/ userId[c] = r.userId}

FanoutTargets_Broadcast(r) == {c \in Conns : readyState[c] = "OPEN"}

\* wss.clients.forEach: the open clients bound to the receiver or the sender
FanoutTargets(r) ==
    {c \in Conns : readyState[c] = "OPEN"
                   /\ (userId[c] = r.receiverId \/ userId[c] = r.userId)}

FanoutResponse_FailsOnLostPush(r, failed) ==
    IF failed = {}
      THEN [op |-> "messages", status |-> 200, body |-> <<r.message>>]
      ELSE [op |-> "messages", status |-> 500, body |-> <<[message |-> "Failed to send message"]>>]

\* res.json(message) follows the forEach whatever became of the sends
FanoutResponse(r, failed) == [op |-> "messages", status |-> 200, body |-> <<r.message>>]

Fanout(r) ==
    /\ r \in inflight
    /\ inflight' = inflight \ {r}
    /\ frames' = [c \in Conns |->
                    IF c \in FanoutTargets(r)
                      THEN Append(frames[c], [type |-> "new_message", data |-> MessageWithSender(r)])
                      ELSE frames[c]]
    /\ lost' = lost \cup {<<c, r.message.id>> : c \in FanoutTargets(r) \cap stale}
    /\ resp' = FanoutResponse(r, FanoutTargets(r) \cap stale)
    /\ UNCHANGED <<messages, msgSeq, connVars, profileVars, now, pending, likeVars, blocks, call, discoverVars, inbox>>

\* ---- storage.markMessageAsRead ----
MarkReadMatches_AnyReader(m, messageId, uid) == m.id = messageId

\* WHERE id = messageId AND receiver_id = userId
MarkReadMatches(m, messageId, uid) == m.id = messageId /\ m.receiverId = uid

MarkedRow_Toggles(m) == [m EXCEPT !.isRead = ~m.isRead]

\* SET is_read = true
MarkedRow(m) == [m EXCEPT !.isRead = TRUE]

\* the UPDATE touches the rows that match, possibly none, and the promise resolves
MarkMessageAsRead(messageId, uid) ==
    /\ messages' = [i \in 1..Len(messages) |->
                      IF MarkReadMatches(messages[i], messageId, uid)
                        THEN MarkedRow(messages[i])
                        ELSE messages[i]]
    /\ call' = [op |-> "markMessageAsRead", userId |-> uid, otherUserId |-> NoUser,
                messageId |-> messageId, outcome |-> "resolved"]
    /\ UNCHANGED <<msgSeq, inflight, frames, lost, resp, connVars, profileVars, now,
                   pending, likeVars, blocks, discoverVars, inbox>>

\* ---- GET /api/conversation/:otherUserId, GET /api/conversations ----
AscByCreatedAt(m1, m2) == m1.createdAt <= m2.createdAt

DescByCreatedAt_Ascending(m1, m2) == m1.createdAt <= m2.createdAt

DescByCreatedAt(m1, m2) == m1.createdAt >= m2.createdAt

\* the sequences that list each of the rows idxs once
Listings(idxs) ==
    {s \in [1..Cardinality(idxs) -> idxs] :
        \A j, k \in 1..Cardinality(idxs) : j # k => s[j] # s[k]}

\* the orders in which ORDER BY created_at ASC may return the rows idxs: equal
\* timestamps come in any order
AscOrderings(idxs) ==
    {s \in Listings(idxs) :
        \A j, k \in 1..Len(s) : j < k => AscByCreatedAt(messages[s[j]], messages[s[k]])}

\* the same for ORDER BY created_at DESC
DescOrderings(idxs) ==
    {s \in Listings(idxs) :
        \A j, k \in 1..Len(s) : j < k => DescByCreatedAt(messages[s[j]], messages[s[k]])}

UserRow(uid) == [id |-> uid]

\* the row mapping of both queries: the users joined on sender_id fill both roles
WithUsers(m) ==
    [id |-> m.id, senderId |-> m.senderId, receiverId |-> m.receiverId,
     content |-> m.content, isRead |-> m.isRead, createdAt |-> m.createdAt,
     sender |-> UserRow(m.senderId), receiver |-> UserRow(m.senderId)]

ConversationRows(u1, u2) ==
    {i \in 1..Len(messages) :
        \/ messages[i].senderId = u1 /\ messages[i].receiverId = u2
        \/ messages[i].senderId = u2 /\ messages[i].receiverId = u1}

GetConversation(u1, u2) ==
    /\ \E s \in AscOrderings(ConversationRows(u1, u2)) :
          resp' = [op |-> "conversation", status |-> 200,
                   body |-> [k \in 1..Len(s) |-> WithUsers(messages[s[k]])]]
    /\ call' = [op |-> "getConversation", userId |-> u1, otherUserId |-> u2,
                messageId |-> 0, outcome |-> "resolved"]
    /\ UNCHANGED <<connVars, profileVars, now, pending, msgVars, likeVars, blocks, discoverVars, inbox>>

OtherUserId(m, uid) == IF m.senderId = uid THEN m.receiverId ELSE m.senderId

InvolvedRows(uid) ==
    {i \in 1..Len(messages) : messages[i].senderId = uid \/ messages[i].receiverId = uid}

\* the loop over latestMessages: the first row of each counterpart is kept, in
\* the order the rows came
FirstPerCounterpart(s, uid) ==
    LET keep == {k \in 1..Len(s) :
                    \A j \in 1..(k - 1) :
                        OtherUserId(messages[s[j]], uid) # OtherUserId(messages[s[k]], uid)}
        pos(n) == CHOOSE k \in keep : Cardinality({j \in keep : j < k}) = n - 1
    IN [n \in 1..Cardinality(keep) |-> WithUsers(messages[s[pos(n)]])]

GetConversations(uid) ==
    /\ \E s \in DescOrderings(InvolvedRows(uid)) :
          resp' = [op |-> "conversations", status |-> 200,
                   body |-> FirstPerCounterpart(s, uid)]
    /\ call' = [op |-> "getConversations", userId |-> uid, otherUserId |-> NoUser,
                messageId |-> 0, outcome |-> "resolved"]
    /\ UNCHANGED <<connVars, profileVars, now, pending, msgVars, likeVars, blocks, discoverVars, inbox>>

\* ---- POST /api/blocks ----
AddBlock(uid, blockedId) ==
    /\ Len(blocks) < MaxBlocks
    /\ blocks' = Append(blocks, [id |-> Len(blocks) + 1, blockerId |-> uid, blockedId |-> blockedId])
    /\ resp' = [op |-> "blocks", status |-> 200, body |-> <<blocks'[Len(blocks')]>>]
    /\ UNCHANGED <<connVars, profileVars, now, pending, msgVars, likeVars, call, discoverVars, inbox>>

\* ---- POST /api/profile, GET /api/discover ----
Ages == {17, 30}
AgeRanges == {<<18, 65>>, <<16, 20>>}
ProfileBodies == [displayName : {"x", Absent}, age : Ages,
                  isVisible : {"true", "false", Absent}, isOnline : {"true", Absent}]

\* insertProfileSchema.parse: display_name is NOT NULL and has no default;
\* is_visible and is_online have defaults and may be left out
InsertProfileSchemaParse(body) == [ok |-> body.displayName # Absent, data |-> body]

\* the user has a profile, so the handler takes the updateProfile branch: the
\* columns the body carries are set, the others are left alone
PostProfile(uid, body) ==
    /\ IF InsertProfileSchemaParse(body).ok
         THEN /\ age' = [age EXCEPT ![uid] = body.age]
              /\ isVisible' = IF body.isVisible = Absent THEN isVisible
                              ELSE [isVisible EXCEPT ![uid] = (body.isVisible = "true")]
              /\ isOnline' = IF body.isOnline = Absent THEN isOnline
                             ELSE [isOnline EXCEPT ![uid] = (body.isOnline = "true")]
              /\ resp' = [op |-> "profile", status |-> 200,
                          body |-> <<[userId |-> uid, age |-> age'[uid],
                                      isVisible |-> isVisible'[uid], isOnline |-> isOnline'[uid]]>>]
         ELSE /\ resp' = ErrorResp("profile", "Failed to save profile")
              /\ UNCHANGED <<age, isVisible, isOnline>>
    /\ UNCHANGED <<connVars, lastSeen, now, pending, msgVars, likeVars, blocks, call, inbox>>

\* the WHERE clause of getNearbyProfiles: not the caller, visible, age in range,
\* online when onlineOnly is asked for
NearbyRows(uid, ageMin, ageMax, onlineOnly) ==
    {u \in Users : /\ u # uid
                   /\ isVisible[u]
                   /\ age[u] >= ageMin /\ age[u] <= ageMax
                   /\ (onlineOnly => isOnline[u])}

\* ORDER BY CASE WHEN is_online THEN 0 ELSE 1 END, last_seen DESC
NearbyBefore(u, v) ==
    IF isOnline[u] # isOnline[v] THEN isOnline[u] ELSE lastSeen[u] >= lastSeen[v]

\* the orders in which the query may return the rows: ties come in any order
NearbyOrderings(rows) ==
    {s \in [1..Cardinality(rows) -> rows] :
        /\ \A j, k \in 1..Cardinality(rows) : j # k => s[j] # s[k]
        /\ \A j, k \in 1..Cardinality(rows) : j < k => NearbyBefore(s[j], s[k])}

ProfileRow(u) ==
    [userId |-> u, age |-> age[u], isVisible |-> isVisible[u], isOnline |-> isOnline[u],
     lastSeen |-> lastSeen[u], user |-> UserRow(u)]

GetNearbyProfiles(uid, ageMin, ageMax, onlineOnly) ==
    /\ \E s \in NearbyOrderings(NearbyRows(uid, ageMin, ageMax, onlineOnly)) :
          resp' = [op |-> "discover", status |-> 200,
                   body |-> [i \in 1..Len(s) |-> ProfileRow(s[i])]]
    /\ call' = [op |-> "getNearbyProfiles", userId |-> uid, otherUserId |-> NoUser,
                messageId |-> 0, outcome |-> "resolved"]
    /\ UNCHANGED <<connVars, profileVars, now, pending, msgVars, likeVars, blocks, discoverVars, inbox>>

\* ---- POST /api/likes, DELETE /api/likes/:likedId ----
AddLikeRow(uid, likedId) == [id |-> likeSeq + 1, likerId |-> uid, likedId |-> likedId]

GetMutualLikes_StaleRead(uid) ==
    LET seen == SubSeq(likes, 1, Len(likes) - 1)
        mutual(l) == /\ l.likerId = uid
                     /\ \E j \in 1..Len(seen) :
                            seen[j].likerId = l.likedId /\ seen[j].likedId = l.likerId
        rows == SelectSeq(seen, mutual)
    IN [i \in 1..Len(rows) |-> rows[i].likedId]

GetMutualLikes_NoExists(uid) ==
    LET rows == SelectSeq(likes, LAMBDA l : l.likerId = uid)
    IN [i \in 1..Len(rows) |-> rows[i].likedId]

\* storage.getMutualLikes: one entry per like row of the user whose reverse edge exists
GetMutualLikes(uid) ==
    LET mutual(l) == /\ l.likerId = uid
                     /\ \E j \in 1..Len(likes) :
                            likes[j].likerId = l.likedId /\ likes[j].likedId = l.likerId
        rows == SelectSeq(likes, mutual)
    IN [i \in 1..Len(rows) |-> rows[i].likedId]

Includes(s, x) == \E i \in 1..Len(s) : s[i] = x

\* parse, then the awaited insert; the handler resumes in LikeCheck
PostLike(uid, likedId) ==
    /\ likeSeq < MaxLikes
    /\ likeSeq' = likeSeq + 1
    /\ IF likedId \notin Users
         THEN /\ resp' = ErrorResp("likes", "Failed to add like")
              /\ UNCHANGED <<likes, inflightLikes, likeLog>>
         ELSE /\ likes' = Append(likes, AddLikeRow(uid, likedId))
              /\ inflightLikes' = inflightLikes \cup
                    {[userId |-> uid, likedId |-> likedId, like |-> AddLikeRow(uid, likedId)]}
              /\ UNCHANGED <<resp, likeLog>>
    /\ UNCHANGED <<connVars, profileVars, now, pending, msgVars, blocks, call, discoverVars, inbox>>

\* the awaited getMutualLikes, includes, and the answer; likeLog keeps the answers given
LikeCheck(r) ==
    /\ r \in inflightLikes
    /\ inflightLikes' = inflightLikes \ {r}
    /\ resp' = [op |-> "likes", status |-> 200,
                body |-> <<[like |-> r.like, isMatch |-> Includes(GetMutualLikes(r.userId), r.likedId)]>>]
    /\ likeLog' = likeLog \cup
          {[like |-> r.like, isMatch |-> Includes(GetMutualLikes(r.userId), r.likedId)]}
    /\ UNCHANGED <<likes, likeSeq, connVars, profileVars, now, pending, msgVars, blocks, call, discoverVars, inbox>>

RemoveLike_FirstRowOnly(uid, likedId) ==
    LET hits == {i \in 1..Len(likes) : likes[i].likerId = uid /\ likes[i].likedId = likedId}
        first == CHOOSE i \in hits : \A j \in hits : i <= j
    IN /\ likes' = IF hits = {} THEN likes
                    ELSE [k \in 1..(Len(likes) - 1) |-> IF k < first THEN likes[k] ELSE likes[k + 1]]
       /\ resp' = [op |-> "unlike", status |-> 200, body |-> <<[success |-> TRUE]>>]
       /\ UNCHANGED <<likeSeq, inflightLikes, likeLog, connVars, profileVars, now, pending, msgVars, blocks, call, discoverVars, inbox>>

RemoveLike_BothDirections(uid, likedId) ==
    /\ likes' = SelectSeq(likes, LAMBDA l : ~({l.likerId, l.likedId} = {uid, likedId}))
    /\ resp' = [op |-> "unlike", status |-> 200, body |-> <<[success |-> TRUE]>>]
    /\ UNCHANGED <<likeSeq, inflightLikes, likeLog, connVars, profileVars, now, pending, msgVars, blocks, call, discoverVars, inbox>>

\* DELETE FROM likes WHERE liker_id = uid AND liked_id = likedId
RemoveLike(uid, likedId) ==
    /\ likes' = SelectSeq(likes, LAMBDA l : ~(l.likerId = uid /\ l.likedId = likedId))
    /\ resp' = [op |-> "unlike", status |-> 200, body |-> <<[success |-> TRUE]>>]
    /\ UNCHANGED <<likeSeq, inflightLikes, likeLog, connVars, profileVars, now, pending, msgVars, blocks, call, discoverVars, inbox>>

\* ---- request bodies that name an acting identity of their own ----
\* insertLikeSchema.parse({...req.body, likerId: userId})
InsertLikeSchemaParse(body, uid) == WithCaller(body, "likerId", uid)

\* insertBlockSchema.parse({...req.body, blockerId: userId})
InsertBlockSchemaParse(body, uid) == WithCaller(body, "blockerId", uid)

\* POST /api/likes with the body as sent: the parsed likerId is what addLike stores
PostLikeBody(uid, body) ==
    PostLike(InsertLikeSchemaParse(body, uid).likerId, InsertLikeSchemaParse(body, uid).likedId)

\* POST /api/blocks with the body as sent
PostBlockBody(uid, body) ==
    AddBlock(InsertBlockSchemaParse(body, uid).blockerId, InsertBlockSchemaParse(body, uid).blockedId)

ForgedMessageBodies ==
    [senderId : Users, receiverId : {"B"}, content : {"hi"}, isRead : {Absent}]
ForgedLikeBodies == [likerId : Users, likedId : {"B"}]
ForgedBlockBodies == [blockerId : Users, blockedId : {"B"}]

MsgUsers == {"A", "B"}
PlainBodies(receivers) == [receiverId : receivers, content : {"hi"}, isRead : {Absent}]

\* delivery: connections bind, rebind and close while A sends to itself and to B
NextMsg ==
    \/ \E c \in Conns : Open(c)
    \/ \E c \in Conns, u \in MsgUsers : AuthAndPersist(c, u)
    \/ \E c \in Conns : CloseAndPersist(c)
    \/ \E b \in PlainBodies(MsgUsers) : PostMessage("A", b)
    \/ \E r \in inflight : Fanout(r)

SpecMsg == Init /\ [][NextMsg]_vars

\* delivery to connections whose peer may be gone
NextPush ==
    \/ \E c \in Conns : Open(c)
    \/ \E c \in Conns : AuthAndPersist(c, "B")
    \/ \E c \in Conns : GoStale(c)
    \/ \E c \in Conns : CloseAndPersist(c)
    \/ \E b \in PlainBodies({"B"}) : PostMessage("A", b)
    \/ \E r \in inflight : Fanout(r)

SpecPush == Init /\ [][NextPush]_vars

\* validation: every request body from A, blocks between A and B
NextSend ==
    \/ \E c \in Conns : Open(c)
    \/ \E c \in Conns : AuthAndPersist(c, "B")
    \/ \E u \in MsgUsers : \E v \in MsgUsers \ {u} : AddBlock(u, v)
    \/ \E b \in MessageBodies({"B", Ghost}) : PostMessage("A", b)
    \/ \E r \in inflight : Fanout(r)

SpecSend == Init /\ [][NextSend]_vars

ReadBodies == [receiverId : MsgUsers, content : {"hi"}, isRead : {Absent, "true"}]

\* read receipts on messages between A and B
NextRead ==
    \/ \E u \in MsgUsers, b \in ReadBodies : PostMessage(u, b)
    \/ \E r \in inflight : Fanout(r)
    \/ \E id \in 1..MaxMsgs, u \in MsgUsers : MarkMessageAsRead(id, u)

SpecRead == Init /\ [][NextRead]_vars

\* the conversation queries over messages between A and B, sent as time passes
NextConv ==
    \/ Tick
    \/ \E u \in MsgUsers, b \in PlainBodies(MsgUsers) : PostMessage(u, b)
    \/ \E r \in inflight : Fanout(r)
    \/ \E u \in MsgUsers, v \in MsgUsers : GetConversation(u, v)
    \/ \E u \in MsgUsers : GetConversations(u)

SpecConv == Init /\ [][NextConv]_vars

LikeUsers == {"A", "B"}

NextLikes ==
    \/ \E u \in LikeUsers, v \in LikeUsers \cup {Ghost} : PostLike(u, v)
    \/ \E r \in inflightLikes : LikeCheck(r)
    \/ \E u \in LikeUsers, v \in LikeUsers : RemoveLike(u, v)

SpecLikes == Init /\ [][NextLikes]_vars

\* likes in both directions with no unlike
NextMatch ==
    \/ \E u \in LikeUsers, v \in LikeUsers \cup {Ghost} : PostLike(u, v)
    \/ \E r \in inflightLikes : LikeCheck(r)

SpecMatch == Init /\ [][NextMatch]_vars

\* discovery: A and B edit their profiles and block each other while both browse
NextDiscover ==
    \/ \E u \in MsgUsers, b \in ProfileBodies : PostProfile(u, b)
    \/ \E u \in MsgUsers : \E v \in MsgUsers \ {u} : AddBlock(u, v)
    \/ \E u \in MsgUsers, r \in AgeRanges, o \in BOOLEAN : GetNearbyProfiles(u, r[1], r[2], o)

SpecDiscover == Init /\ [][NextDiscover]_vars

\* the connection lifecycle across restarts of the process
NextCrash ==
    \/ \E w \in BagToSet(pending) : ApplyWrite(w)
    \/ \E c \in Conns : Open(c)
    \/ \E c \in Conns, u \in PresenceUsers : Auth(c, u)
    \/ \E c \in Conns : Close(c)
    \/ Restart

SpecCrash == Init /\ [][NextCrash]_vars

\* frames of every kind arriving on open sockets
NextFrame ==
    \/ \E w \in BagToSet(pending) : ApplyWrite(w)
    \/ \E c \in Conns : Open(c)
    \/ \E c \in Conns, f \in InboundFrames({"A"}) : Deliver(c, f)
    \/ \E c \in Conns : OnMessage(c)

SpecFrame == Init /\ [][NextFrame]_vars

\* sockets that open, bind to B or stay unbound, and close, while A sends to B
NextAnon ==
    \/ \E w \in BagToSet(pending) : ApplyWrite(w)
    \/ \E c \in Conns : Open(c)
    \/ \E c \in Conns : AuthAndPersist(c, "B")
    \/ \E c \in Conns : Close(c)
    \/ \E b \in PlainBodies({"B"}) : PostMessage("A", b)
    \/ \E r \in inflight : Fanout(r)

SpecAnon == Init /\ [][NextAnon]_vars

OnlineBodies == [displayName : {"x"}, age : {30}, isVisible : {Absent}, isOnline : {"true"}]

\* unlikes among likes between A and B, with a block and an online user in the store
NextUnlike ==
    \/ \E u \in LikeUsers : \E v \in LikeUsers \ {u} : PostLike(u, v)
    \/ \E r \in inflightLikes : LikeCheck(r)
    \/ \E u \in LikeUsers, v \in LikeUsers : RemoveLike(u, v)
    \/ AddBlock("A", "B")
    \/ \E b \in OnlineBodies : PostProfile("B", b)

SpecUnlike == Init /\ [][NextUnlike]_vars

\* A sends to B while sockets bind to the sender, the receiver or the bystander C
NextLeak ==
    \/ \E c \in Conns : Open(c)
    \/ \E c \in Conns, u \in Users : AuthAndPersist(c, u)
    \/ \E b \in PlainBodies({"B"}) : PostMessage("A", b)
    \/ \E r \in inflight : Fanout(r)

SpecLeak == Init /\ [][NextLeak]_vars

\* A posts messages, likes and blocks whose bodies name any user as the actor
NextForge ==
    \/ \E b \in ForgedMessageBodies : PostMessage("A", b)
    \/ \E r \in inflight : Fanout(r)
    \/ \E b \in ForgedLikeBodies : PostLikeBody("A", b)
    \/ \E r \in inflightLikes : LikeCheck(r)
    \/ \E b \in ForgedBlockBodies : PostBlockBody("A", b)

SpecForge == Init /\ [][NextForge]_vars

\* requests of A that store a row, fail validation or fail the insert
FailingBodies == [receiverId : {"B", Ghost}, content : {"hi", Absent}, isRead : {Absent}]

\* persist and push: A's requests succeed or fail while B's sockets listen
NextPersist ==
    \/ \E c \in Conns : Open(c)
    \/ \E c \in Conns : AuthAndPersist(c, "B")
    \/ \E b \in FailingBodies : PostMessage("A", b)
    \/ \E r \in inflight : Fanout(r)

SpecPersist == Init /\ [][NextPersist]_vars

(***************************************************************************)
(* Properties                                                              *)
(***************************************************************************)

\* the outstanding UPDATE a step applies, if any
Applies(w) == BagIn(w, pending) /\ pending' = pending (-) SetToBag({w})

\* the UPDATE a step issues, if any
Issues(w) == pending' = pending (+) SetToBag({w})

\* connection c closes in this step
Closes(c) == readyState[c] = "OPEN" /\ readyState'[c] = "CLOSED"

\* the row a step inserts into messages, if any
Inserted == Len(messages') = Len(messages) + 1
NewRow == messages'[Len(messages')]

\* the request whose handler fans out and answers in this step
FansOut(r) == r \in inflight /\ inflight' = inflight \ {r}

IsBlank(content) == content \in {"", " "}

BlockBetween(a, b) ==
    \E i \in 1..Len(blocks) :
        \/ blocks[i].blockerId = a /\ blocks[i].blockedId = b
        \/ blocks[i].blockerId = b /\ blocks[i].blockedId = a

FramesOf(c, id) == {k \in 1..Len(frames[c]) : frames[c][k].data.id = id}

\* C1: in every reachable state, a user whose persisted isOnline flag is true
\* has at least one live connection (open and bound to that user).
C1_OnlineImpliesLiveConnection ==
    \A u \in Users : isOnline[u] => LiveConns(u) # {}

\* C2: while a connection of U remains registered, the close of another
\* connection of U does not take U offline: applying the presence write of a
\* close handler while U still has a live connection leaves isOnline(U) true.
C2_StaysOnlineWhileConnected ==
    [][\A w \in BagToSet(pending) :
          (Applies(w) /\ w.op = "close" /\ w.user \in Users
              /\ isOnline[w.user] /\ LiveConns(w.user) # {})
          => isOnline'[w.user]]_vars

C4_SingleOfflineWrite ==
    [][\A c \in Conns :
          (Closes(c) /\ userId[c] \in Users /\ LiveConns(userId[c]) \ {c} # {})
          => pending' = pending]_vars

\* C5: when the handler of a persisted message M from S to R fans out, every
\* connection that is open and bound to S or to R gets exactly one more frame,
\* {type: new_message, data: M} with the stored id, createdAt, senderId,
\* receiverId and content, and every other connection gets none.
C5_FanoutToSenderAndReceiver ==
    [][\A r \in inflight :
          FansOut(r) =>
            \E i \in 1..Len(messages) :
              /\ messages[i].id = r.message.id
              /\ \A c \in Conns :
                   IF readyState[c] = "OPEN"
                        /\ userId[c] \in {messages[i].senderId, messages[i].receiverId}
                     THEN /\ Len(frames'[c]) = Len(frames[c]) + 1
                          /\ SubSeq(frames'[c], 1, Len(frames[c])) = frames[c]
                          /\ LET f == frames'[c][Len(frames'[c])] IN
                               /\ f.type = "new_message"
                               /\ f.data.id = messages[i].id
                               /\ f.data.createdAt = messages[i].createdAt
                               /\ f.data.senderId = messages[i].senderId
                               /\ f.data.receiverId = messages[i].receiverId
                               /\ f.data.content = messages[i].content
                          /\ Cardinality(FramesOf(c, messages[i].id)') = 1
                     ELSE frames'[c] = frames[c]]_vars

\* C5 witness: one message from S to R # S has reached a connection bound to
\* S and a connection bound to R, and a message from S to S has reached a
\* connection once.
C5_Witness ==
    /\ \E c \in Conns, d \in Conns, i \in 1..Len(messages) :
          /\ c # d
          /\ messages[i].senderId # messages[i].receiverId
          /\ userId[c] = messages[i].senderId
          /\ userId[d] = messages[i].receiverId
          /\ Cardinality(FramesOf(c, messages[i].id)) = 1
          /\ Cardinality(FramesOf(d, messages[i].id)) = 1
    /\ \E c \in Conns, i \in 1..Len(messages) :
          /\ messages[i].senderId = messages[i].receiverId
          /\ Cardinality(FramesOf(c, messages[i].id)) = 1

\* C6: a send whose content is empty or whitespace-only persists no message
\* row and pushes no frame.
C6_BlankContentRejected ==
    /\ \A i \in 1..Len(messages) : ~IsBlank(messages[i].content)
    /\ \A c \in Conns : \A k \in 1..Len(frames[c]) : ~IsBlank(frames[c][k].data.content)

\* C7: no message is persisted from S to R while a block edge exists between
\* S and R in either direction.
C7_BlockedSendRejected ==
    [][Inserted => ~BlockBetween(NewRow.senderId, NewRow.receiverId)]_vars

\* C8: a send persists exactly one row, with isRead = false and an id greater
\* than the id of every earlier message of the same sender.
C8_OneUnreadRowWithIncreasingId ==
    [][messages' # messages =>
          /\ Inserted
          /\ SubSeq(messages', 1, Len(messages)) = messages
          /\ NewRow.isRead = FALSE
          /\ \A i \in 1..Len(messages) :
                messages[i].senderId = NewRow.senderId => messages[i].id < NewRow.id]_vars

\* C9: when the handler of a persisted message answers, the message is still
\* stored and the caller gets it as the 200 result, also when a push went to a
\* connection whose peer is gone.
C9_PersistIndependentOfPush ==
    [][\A r \in inflight :
          FansOut(r) =>
            /\ resp' = [op |-> "messages", status |-> 200, body |-> <<r.message>>]
            /\ messages' = messages
            /\ \E i \in 1..Len(messages') : messages'[i].id = r.message.id]_vars

\* C9 witness: the push of a message to a stale connection was lost and the
\* caller holds that message as its 200 result.
C9_Witness ==
    \E p \in lost :
        /\ resp.op = "messages"
        /\ resp.status = 200
        /\ resp.body[1].id = p[2]
        /\ \E i \in 1..Len(messages) : messages[i] = resp.body[1]

\* C10: the likes table holds at most one row per ordered pair (likerId, likedId).
C10_OneRowPerLikePair ==
    \A i \in 1..Len(likes), j \in 1..Len(likes) :
        (likes[i].likerId = likes[j].likerId /\ likes[i].likedId = likes[j].likedId) => i = j

\* the like rows of the ordered pair (a, b)
EdgeRows(a, b) == {i \in 1..Len(likes) : likes[i].likerId = a /\ likes[i].likedId = b}
HasEdge(a, b) == EdgeRows(a, b) # {}

\* the POST /api/likes request whose handler answers in this step
Answers(r) == r \in inflightLikes /\ inflightLikes' = inflightLikes \ {r}

\* C11: a like by A of B persists the edge (A,B), and its answer has
\* isMatch = true exactly when the reverse edge (B,A) is stored at the moment
\* of the check.
C11_MatchIffReverseEdge ==
    [][\A r \in inflightLikes :
          Answers(r) => (resp'.body[1].isMatch <=> HasEdge(r.likedId, r.userId))]_vars

\* C11 as amended: a like by A of B inserts one row (A,B), and its answer has
\* isMatch = true exactly when both edges (A,B) and (B,A) are stored at the
\* moment of the check.
C11_MatchIffBothEdges ==
    [][/\ Len(likes') = Len(likes) + 1 =>
             \E r \in inflightLikes' \ inflightLikes :
                 /\ likes'[Len(likes')] = r.like
                 /\ r.like.likerId = r.userId
                 /\ r.like.likedId = r.likedId
                 /\ SubSeq(likes', 1, Len(likes)) = likes
       /\ \A r \in inflightLikes :
             Answers(r) =>
                 /\ resp'.op = "likes"
                 /\ resp'.body[1].like = r.like
                 /\ resp'.body[1].isMatch <=>
                        (HasEdge(r.userId, r.likedId) /\ HasEdge(r.likedId, r.userId))]_vars

\* C11 witness: A liked B first and was answered no match, B liked A later and
\* was answered match.
C11_Witness ==
    \E x \in likeLog, y \in likeLog :
        /\ x.like.likerId # x.like.likedId
        /\ y.like.likerId = x.like.likedId
        /\ y.like.likedId = x.like.likerId
        /\ x.like.id < y.like.id
        /\ ~x.isMatch
        /\ y.isMatch

\* C12: of a like by A of B and a like by B of A, however their inserts and
\* checks interleave, at least one is answered isMatch = true.
C12_NotBothUnmatched ==
    \A x \in likeLog, y \in likeLog :
        (y.like.likerId = x.like.likedId /\ y.like.likedId = x.like.likerId)
        => (x.isMatch \/ y.isMatch)

\* C12 witness: both inserts came before both checks, and both were answered.
C12_Witness ==
    \E x \in likeLog, y \in likeLog :
        /\ x.like.likerId # x.like.likedId
        /\ y.like.likerId = x.like.likedId
        /\ y.like.likedId = x.like.likerId
        /\ x.isMatch
        /\ y.isMatch

\* C13: a removeLike(A,B) that deletes a stored like leaves B out of
\* mutualPartners(A) and A out of mutualPartners(B), however many times A had
\* liked B.
C13_UnlikeEndsMatch ==
    [][\A a \in Users, b \in Users :
          Cardinality(EdgeRows(a, b)') < Cardinality(EdgeRows(a, b))
          => /\ ~Includes(GetMutualLikes(a)', b)
             /\ ~Includes(GetMutualLikes(b)', a)]_vars

\* C13 witness: B's like of A was answered match, A has unliked B, and B is no
\* longer a mutual partner of A.
C13_Witness ==
    \E y \in likeLog :
        /\ y.isMatch
        /\ y.like.likerId # y.like.likedId
        /\ resp.op = "unlike"
        /\ HasEdge(y.like.likerId, y.like.likedId)
        /\ ~HasEdge(y.like.likedId, y.like.likerId)
        /\ ~Includes(GetMutualLikes(y.like.likedId), y.like.likerId)

\* C14: mutualPartners(U) lists exactly the users X with both edges (U,X) and
\* (X,U) stored, each once, and X is a partner of U iff U is a partner of X.
C14_MutualPartnersExactSet ==
    \A u \in Users :
        LET m == GetMutualLikes(u) IN
        /\ \A i \in 1..Len(m), j \in 1..Len(m) : m[i] = m[j] => i = j
        /\ {m[i] : i \in 1..Len(m)} = {x \in Users : HasEdge(u, x) /\ HasEdge(x, u)}
        /\ \A x \in Users : Includes(m, x) <=> Includes(GetMutualLikes(x), u)

\* the query whose handler answers in this step
Queries(respOp, callOp) ==
    /\ resp'.op = respOp
    /\ call'.op = callOp
    /\ (resp' # resp \/ call' # call)

\* the stored messages exchanged between a and b, in either direction
Between(a, b) ==
    {i \in 1..Len(messages) : {messages[i].senderId, messages[i].receiverId} = {a, b}}

\* C15: isRead of a message changes only in a markRead of that message by its
\* receiver, and then to true; a markRead by any other reader leaves isRead of
\* every message as it was.
C15_OnlyReceiverMarksRead ==
    [][\A i \in 1..Len(messages) :
          (i <= Len(messages') /\ messages'[i].isRead # messages[i].isRead)
          => /\ call'.op = "markMessageAsRead"
             /\ call'.messageId = messages[i].id
             /\ call'.userId = messages[i].receiverId
             /\ messages'[i].isRead = TRUE]_vars

\* C15 witness: an unread message after a markRead of it by a user who is not
\* its receiver.
C15_Witness ==
    \E i \in 1..Len(messages) :
        /\ call.op = "markMessageAsRead"
        /\ call.messageId = messages[i].id
        /\ call.userId # messages[i].receiverId
        /\ ~messages[i].isRead

\* C16: a markRead of a message by a reader who is not its receiver fails with
\* Forbidden.
C16_WrongReaderForbidden ==
    (/\ call.op = "markMessageAsRead"
     /\ \E i \in 1..Len(messages) :
            messages[i].id = call.messageId /\ messages[i].receiverId # call.userId)
    => call.outcome = "Forbidden"

\* C17: a stored message keeps its place, id, senderId, receiverId, content
\* and createdAt in every step, is never deleted, and once read stays read.
C17_MessageImmutableButIsRead ==
    [][\A i \in 1..Len(messages) :
          /\ i <= Len(messages')
          /\ messages'[i].id = messages[i].id
          /\ messages'[i].senderId = messages[i].senderId
          /\ messages'[i].receiverId = messages[i].receiverId
          /\ messages'[i].content = messages[i].content
          /\ messages'[i].createdAt = messages[i].createdAt
          /\ messages[i].isRead => messages'[i].isRead]_vars

\* C17 witness: a message that was marked read by its receiver.
C17_Witness ==
    \E i \in 1..Len(messages) :
        /\ call.op = "markMessageAsRead"
        /\ call.messageId = messages[i].id
        /\ call.userId = messages[i].receiverId
        /\ messages[i].isRead
        /\ Len(messages) = MaxMsgs

\* C18: conversationBetween(A, B) returns each message exchanged between A and
\* B once and no other message, ascending by createdAt with ties broken by id.
C18_ConversationOrderedByCreatedAtThenId ==
    [][Queries("conversation", "getConversation") =>
          LET rows == resp'.body IN
          /\ {rows[k].id : k \in 1..Len(rows)} =
                {messages[i].id : i \in Between(call'.userId, call'.otherUserId)}
          /\ Len(rows) = Cardinality(Between(call'.userId, call'.otherUserId))
          /\ \A j, k \in 1..Len(rows) :
                j < k => \/ rows[j].createdAt < rows[k].createdAt
                         \/ /\ rows[j].createdAt = rows[k].createdAt
                            /\ rows[j].id < rows[k].id]_vars

\* the users X with whom U has exchanged a message
Partners(u) == {x \in Users : Between(u, x) # {}}

\* C19: latestMessagePerCounterpart(U) returns one row per user X with whom U
\* has exchanged a message, a stored message between U and X than which none
\* between them is more recent, and the rows descend by createdAt.
C19_LatestPerCounterpart ==
    [][Queries("conversations", "getConversations") =>
          LET rows == resp'.body
              u == call'.userId
          IN /\ Len(rows) = Cardinality(Partners(u))
             /\ \A x \in Partners(u) :
                   \E k \in 1..Len(rows) :
                       /\ {rows[k].senderId, rows[k].receiverId} = {u, x}
                       /\ \E i \in Between(u, x) : messages[i].id = rows[k].id
                       /\ \A i \in Between(u, x) : messages[i].createdAt <= rows[k].createdAt
             /\ \A j, k \in 1..Len(rows) : j < k => rows[j].createdAt >= rows[k].createdAt]_vars

\* C19 witness: a result of two counterparts, the more recent conversation first.
C19_Witness ==
    /\ resp.op = "conversations"
    /\ Len(resp.body) = 2
    /\ resp.body[1].createdAt > resp.body[2].createdAt

\* C20: in every row the conversation queries return, sender is the user
\* senderId and receiver is the user receiverId.
C20_RowsCarryBothParties ==
    resp.op \in {"conversation", "conversations"} =>
        \A k \in 1..Len(resp.body) :
            /\ resp.body[k].sender.id = resp.body[k].senderId
            /\ resp.body[k].receiver.id = resp.body[k].receiverId

\* a stored block row from a to b
BlockedBy(a, b) == \E i \in 1..Len(blocks) : blocks[i].blockerId = a /\ blocks[i].blockedId = b

\* C21: once a block from A to B is stored, no discovery result returned to A
\* contains B's profile.
C21_BlockedNeverDiscovered ==
    [][\A a \in Users :
           Queries("discover", "getNearbyProfiles") /\ call'.userId = a
               => \A i \in 1..Len(resp'.body) : ~BlockedBy(a, resp'.body[i].userId)]_vars

\* the step in which the process restarts: every socket of the old process is gone
Restarts ==
    /\ \E c \in Conns : readyState[c] = "OPEN"
    /\ \A c \in Conns : readyState'[c] = "NONE"

\* C22: the state a restarted process starts from has no user online: no
\* connection has authenticated since the restart, so no online flag may stand.
C22_NoStaleOnlineAfterRestart ==
    [][Restarts => \A u \in Users : ~isOnline'[u]]_vars

\* the message event of frame i of connection c runs in this step
Handles(c, i) == ~inbox[c][i].handled /\ inbox'[c][i].handled

\* C23: handling a frame that does not parse, or whose type is not auth, leaves
\* the connection open with the user it was bound to, and changes no presence,
\* message or like state.
C23_OtherFramesIgnored ==
    [][\A c \in Conns : \A i \in 1..Len(inbox[c]) :
           /\ Handles(c, i)
           /\ (inbox[c][i].frame.json = "malformed" \/ inbox[c][i].frame.type # "auth")
           => /\ readyState[c] = "OPEN"
              /\ UNCHANGED <<readyState, userId, stale, isOnline, lastSeen, pending>>
              /\ UNCHANGED <<msgVars, likeVars>>]_vars

\* a connection bound to a user has had a frame of another type handled
C23_Witness ==
    \E c \in Conns : \E i \in 1..Len(inbox[c]) :
        /\ readyState[c] = "OPEN"
        /\ userId[c] \in Users
        /\ inbox[c][i].handled
        /\ inbox[c][i].frame.type # "auth"
        /\ \E j \in 1..(i - 1) : inbox[c][j].frame.type = "auth"

Opens(c) == readyState[c] = "NONE" /\ readyState'[c] = "OPEN"

\* open, and no auth frame handled yet
Anonymous(c) == readyState[c] = "OPEN" /\ userId[c] = NoUser

\* C24: a connection that is open and has sent no auth frame is bound to no
\* user: opening it leaves presence alone, no step pushes a frame to it, and
\* closing it from that state issues no presence write.
C24_AnonymousConnectionUnbound ==
    [][\A c \in Conns :
           /\ Opens(c) => userId'[c] = NoUser /\ UNCHANGED <<isOnline, lastSeen, pending>>
           /\ Anonymous(c) => frames[c] = <<>> /\ frames'[c] = <<>>
           /\ Anonymous(c) /\ Closes(c) => UNCHANGED <<isOnline, lastSeen, pending>>]_vars

\* a connection was closed without ever binding and got no frame, while a
\* message reached a bound connection
C24_Witness ==
    \E c \in Conns, d \in Conns :
        /\ readyState[c] = "CLOSED" /\ userId[c] = NoUser /\ frames[c] = <<>>
        /\ userId[d] \in Users /\ frames[d] # <<>>

\* a response that reports a failure
Failed(r) == r.op # "none" /\ r.status # 200

\* C25: every failure reported to the HTTP caller carries the status code its
\* error type maps to (400, 404, 403, 409 or 401) and a JSON message body.
C25_FailuresCarryMappedStatus ==
    Failed(resp) =>
        /\ resp.status \in {400, 404, 403, 409, 401}
        /\ Len(resp.body) = 1
        /\ DOMAIN resp.body[1] = {"message"}

\* C26: every presence write that the store applies carries an isOnline value
\* and sets isOnline and lastSeen of its user in that one step, so the two
\* fields are never seen half-updated.
C26_PresenceWriteSetsBothFields ==
    [][\A w \in BagToSet(pending) :
           Applies(w) /\ w.user \in Users
               => /\ w.online \in {"true", "false"}
                  /\ isOnline'[w.user] = (w.online = "true")
                  /\ lastSeen'[w.user] = w.at]_vars

\* the like rows of the ordered pair (a, b), in the order they are stored
EdgeSeq(s, a, b) == SelectSeq(s, LAMBDA l : l.likerId = a /\ l.likedId = b)

\* C27: an unlike of B by A removes the rows of the edge (A,B) and nothing
\* else: the rows of every other ordered pair, the reverse pair included, all
\* messages, blocks and presence stay as they were, the answer is a success,
\* and when there was no edge (A,B) the likes are unchanged.
C27_UnlikeDeletesOnlyItsEdge ==
    [][\A a \in Users, b \in Users :
           RemoveLike(a, b)
               => /\ EdgeSeq(likes', a, b) = <<>>
                  /\ \A x \in Users, y \in Users :
                         <<x, y>> # <<a, b>> => EdgeSeq(likes', x, y) = EdgeSeq(likes, x, y)
                  /\ EdgeSeq(likes, a, b) = <<>> => likes' = likes
                  /\ UNCHANGED <<messages, frames, blocks, isOnline, lastSeen, pending>>
                  /\ resp'.status = 200]_vars

\* A has unliked B: the edge (A,B) is gone while the reverse edge, a block and
\* an online user remain
C27_Witness ==
    /\ resp.op = "unlike"
    /\ likeSeq >= 2
    /\ ~HasEdge("A", "B")
    /\ HasEdge("B", "A")
    /\ blocks # <<>>
    /\ isOnline["B"]

\* C28: a send whose receiverId, or a like whose likedId, is the id of no user
\* fails with NotFound (status 404), stores no row and pushes no frame.
C28_UnknownUserIsNotFound ==
    [][/\ \A u \in Users, b \in PlainBodies({Ghost}) :
              PostMessage(u, b)
                  => resp'.status = 404 /\ messages' = messages /\ frames' = frames
       /\ \A u \in Users :
              PostLike(u, Ghost)
                  => resp'.status = 404 /\ likes' = likes /\ frames' = frames]_vars

\* C29: once no presence write is outstanding, a user whose connection
\* authenticated and closed, and who has no live connection, is offline,
\* whichever order the store applied the writes in.
C29_OfflineAfterAuthThenClose ==
    \A u \in Users :
        /\ pending = EmptyBag
        /\ LiveConns(u) = {}
        /\ \E c \in Conns : readyState[c] = "CLOSED" /\ userId[c] = u
        => ~isOnline[u]

\* C30: a connection keeps the user it is bound to, and after a connection
\* closes every user that is online has a live connection.
C30_CloseClearsEveryUserItSetOnline ==
    [][\A c \in Conns :
           /\ userId[c] # NoUser => userId'[c] = userId[c]
           /\ Closes(c) => \A u \in Users : isOnline'[u] => LiveConns(u)' # {}]_vars

\* C31: whenever a connection is sent a frame, the frame is the new_message of
\* a stored message and the connection is bound to that message's sender or
\* receiver; a connection bound to anyone else, or to no one, is sent nothing.
C31_PushOnlyToSenderOrReceiver ==
    [][\A c \in Conns :
           frames'[c] # frames[c]
               => /\ Len(frames'[c]) = Len(frames[c]) + 1
                  /\ SubSeq(frames'[c], 1, Len(frames[c])) = frames[c]
                  /\ LET f == frames'[c][Len(frames'[c])] IN
                       /\ f.type = "new_message"
                       /\ \E i \in 1..Len(messages) :
                            /\ messages[i].id = f.data.id
                            /\ userId[c] \in {messages[i].senderId, messages[i].receiverId}]_vars

\* a message has reached a connection of its receiver while an open connection
\* bound to the bystander, or to no one, has been sent nothing
C31_Witness ==
    \E c \in Conns, d \in Conns :
        /\ readyState[c] = "OPEN" /\ userId[c] \in {"C", NoUser} /\ frames[c] = <<>>
        /\ readyState[d] = "OPEN" /\ userId[d] = "B" /\ Len(frames[d]) = msgSeq
        /\ msgSeq > 0

\* C32: the row a POST of a message, a like or a block stores has the caller
\* as its senderId, likerId or blockerId, whichever identity the body names.
C32_ActingIdentityIsCaller ==
    [][\A u \in Users :
           /\ \A b \in ForgedMessageBodies :
                  PostMessage(u, b) /\ Inserted => NewRow.senderId = u
           /\ \A b \in ForgedLikeBodies :
                  PostLikeBody(u, b) /\ Len(likes') = Len(likes) + 1
                      => likes'[Len(likes')].likerId = u
           /\ \A b \in ForgedBlockBodies :
                  PostBlockBody(u, b) /\ Len(blocks') = Len(blocks) + 1
                      => blocks'[Len(blocks')].blockerId = u]_vars

\* A has stored a message, a like and a block, and every row names A although
\* the bodies could name B or C
C32_Witness ==
    /\ messages # <<>> /\ likes # <<>> /\ blocks # <<>>
    /\ \A i \in 1..Len(messages) : messages[i].senderId = "A"
    /\ \A i \in 1..Len(likes) : likes[i].likerId = "A"
    /\ \A i \in 1..Len(blocks) : blocks[i].blockerId = "A"

\* C33: a connection that is closed is sent no frame, whatever message is
\* fanned out from then on, and it stays closed.
C33_NoFrameAfterClose ==
    [][\A c \in Conns :
           readyState[c] = "CLOSED"
               => frames'[c] = frames[c] /\ readyState'[c] = "CLOSED"]_vars

\* a connection of the receiver got the first message, was closed, and the
\* second message was fanned out without a frame for it
C33_Witness ==
    \E c \in Conns :
        /\ readyState[c] = "CLOSED"
        /\ userId[c] = "B"
        /\ Len(messages) = 2
        /\ inflight = {}
        /\ FramesOf(c, 1) # {}
        /\ FramesOf(c, 2) = {}

\* C34: a frame that is sent carries a message that was stored before the
\* step that sends it, and a POST /api/messages that stores no row (the body
\* fails validation or the insert fails) sends no frame and leaves none to be
\* sent.
C34_PersistPrecedesPush ==
    [][/\ \A c \in Conns :
              frames'[c] # frames[c]
                  => LET f == frames'[c][Len(frames'[c])] IN
                       \E i \in 1..Len(messages) :
                           /\ messages[i].id = f.data.id
                           /\ messages[i].receiverId = f.data.receiverId
                           /\ messages[i].content = f.data.content
                           /\ messages[i].createdAt = f.data.createdAt
       /\ \A b \in FailingBodies :
              PostMessage("A", b) /\ messages' = messages
                  => frames' = frames /\ inflight' = inflight]_vars

\* a request of A failed while a connection of the receiver was open, that
\* connection has exactly the frames of the stored messages, and none is left
\* to be sent
C34_Witness ==
    \E c \in Conns :
        /\ readyState[c] = "OPEN" /\ userId[c] = "B"
        /\ resp.status = 500
        /\ msgSeq = 2
        /\ Len(messages) = 1
        /\ inflight = {}
        /\ Len(frames[c]) = 1
        /\ frames[c][1].data.id = messages[1].id

\* C35: no user is a mutual partner of themselves, and no like of a user by
\* that same user is answered with isMatch = true.
C35_NoSelfMatch ==
    /\ \A u \in Users : ~Includes(GetMutualLikes(u), u)
    /\ \A y \in likeLog : y.like.likerId = y.like.likedId => ~y.isMatch

====
